---- MODULE Spec2Model ----
(***************************************************************************)
(* NVRBRTH backend: checkout-session creation and Stripe webhook           *)
(* reconciliation.  src/server.js holds two server variants:               *)
(*   variant A (lines 1-221):  PRICE_MAP / STOCK, makeLineItems,           *)
(*       POST /webhooks/stripe, POST /api/checkout,                        *)
(*       POST /api/create-checkout-session                                 *)
(*   variant B (lines 223-398): friendlyMap, resolveLineItem,              *)
(*       POST /webhook, POST /create-checkout-session                      *)
(* The payment processor (Stripe) is the environment: it stores the        *)
(* sessions the handlers create and signs the events it delivers.          *)
(***************************************************************************)
EXTENDS Integers, Sequences, FiniteSets, TLC

\* server: the variant of server.js that runs ("A" or "B")
\* STOCK: variant A's stock map; orders: the lines of orders.json
\* sessions: the checkout sessions the processor holds, by id
\* last: the last request handled and its response
VARIABLES server, STOCK, orders, sessions, last

vars == <<server, STOCK, orders, sessions, last>>

(***************************************************************************)
(* Bounds of the model.                                                    *)
(***************************************************************************)
\* longest request cart
MaxCartLen == 2
\* lines kept in orders.json before the model stops delivering events
MaxOrders == 2
\* the stock map is not explored above this value (a negative quantity
\* in the metadata cart raises it without limit)
MaxStock == 13

Min(a, b) == IF a < b THEN a ELSE b

Max(a, b) == IF a > b THEN a ELSE b

(***************************************************************************)
(* JSON values a client can put in a quantity field, and JavaScript's      *)
(* conversions of them.                                                    *)
(***************************************************************************)
Num(n) == [t |-> "number", v |-> n]

\* a string holding a decimal integer, such as "2"
NumStr(n) == [t |-> "numeric-string", v |-> n]

\* a string that is no number, such as "abc"
Garbled == [t |-> "string", v |-> 0]

Null == [t |-> "null", v |-> 0]

\* the property is absent
Undefined == [t |-> "undefined", v |-> 0]

\* Number(x): [nan, v]
Number(q) ==
  CASE q.t = "number" -> [nan |-> FALSE, v |-> q.v]
    [] q.t = "numeric-string" -> [nan |-> FALSE, v |-> q.v]
    [] q.t = "null" -> [nan |-> FALSE, v |-> 0]
    [] OTHER -> [nan |-> TRUE, v |-> 0]

\* Number(quantity) || 1 : NaN and 0 are falsy
NumberOrOne(q) ==
  LET n == Number(q) IN IF n.nan \/ n.v = 0 THEN 1 ELSE n.v

\* the clamp without its upper limit
ClampQuantityNoCap(q) == Max(1, NumberOrOne(q))

\* Math.max(1, Math.min(Number(quantity) || 1, 10))
ClampQuantity(q) == Max(1, Min(NumberOrOne(q), 10))

(***************************************************************************)
(* Variant A: server-side price and stock tables.                          *)
(***************************************************************************)
PRICE_MAP ==
  [ skinlock_ss_black_s |-> [name |-> "SKINLOCK SS Tee - Black - S", unit_amount |-> 3500, currency |-> "gbp"],
    skinlock_ss_black_m |-> [name |-> "SKINLOCK SS Tee - Black - M", unit_amount |-> 3500, currency |-> "gbp"],
    skinlock_ss_black_l |-> [name |-> "SKINLOCK SS Tee - Black - L", unit_amount |-> 3500, currency |-> "gbp"],
    skinlock_ls_comp_m  |-> [name |-> "SKINLOCK LS Compression - M", unit_amount |-> 5200, currency |-> "gbp"] ]

InitialStock ==
  [ skinlock_ss_black_s |-> 10,
    skinlock_ss_black_m |-> 10,
    skinlock_ss_black_l |-> 10,
    skinlock_ls_comp_m  |-> 5 ]

\* a request cart: req.body.cart, an array of lines or any other JSON value
Array(elems) == [isArray |-> TRUE, elems |-> elems]

NotAnArray == [isArray |-> FALSE, elems |-> <<>>]

Line(productId, quantity, unit_amount) ==
  [productId |-> productId, quantity |-> quantity, unit_amount |-> unit_amount]

NoError == [message |-> "", key |-> ""]

Error(message, key) == [message |-> message, key |-> key]

\* the iteration without its stock check
LineErrorNoStock(line, stock) ==
  IF line.productId \notin DOMAIN PRICE_MAP
    THEN Error("Unknown productId", line.productId)
  ELSE NoError

\* the throw, if any, of one iteration of cart.map in makeLineItems
LineError(line, stock) ==
  IF line.productId \notin DOMAIN PRICE_MAP
    THEN Error("Unknown productId", line.productId)
  ELSE IF line.productId \in DOMAIN stock /\ stock[line.productId] <= 0
    THEN Error("Out of stock", line.productId)
  ELSE NoError

\* the object one iteration of cart.map returns
LineItem(line) ==
  LET p == PRICE_MAP[line.productId] IN
  [ currency |-> p.currency,
    name |-> p.name,
    unit_amount |-> p.unit_amount,
    quantity |-> ClampQuantity(line.quantity) ]

\* makeLineItems without its first line (the empty-cart throw)
makeLineItemsNoEmptyCheck(cart, stock) ==
  LET bad == {i \in 1..Len(cart.elems) : LineError(cart.elems[i], stock) # NoError} IN
  IF bad # {}
    THEN [ok |-> FALSE,
          error |-> LineError(cart.elems[CHOOSE i \in bad : \A j \in bad : i <= j], stock),
          items |-> <<>>]
    ELSE [ok |-> TRUE, error |-> NoError,
          items |-> [i \in 1..Len(cart.elems) |-> LineItem(cart.elems[i])]]

\* makeLineItems(cart): [ok, error, items]
makeLineItems(cart, stock) ==
  IF ~cart.isArray \/ Len(cart.elems) = 0
    THEN [ok |-> FALSE, error |-> Error("Cart empty", ""), items |-> <<>>]
  ELSE
    LET bad == {i \in 1..Len(cart.elems) : LineError(cart.elems[i], stock) # NoError} IN
    IF bad # {}
      THEN [ok |-> FALSE,
            error |-> LineError(cart.elems[CHOOSE i \in bad : \A j \in bad : i <= j], stock),
            items |-> <<>>]
      ELSE [ok |-> TRUE, error |-> NoError,
            items |-> [i \in 1..Len(cart.elems) |-> LineItem(cart.elems[i])]]

(***************************************************************************)
(* The payment processor.  A session it holds: the metadata and the line   *)
(* items it was created with.  An event it delivers: a type and the        *)
(* session object (event.data.object).                                     *)
(***************************************************************************)
SessionIds == {"cs_1"}

EventTypes == {"checkout.session.completed", "payment_intent.succeeded"}

\* the stripe-signature header: Stripe's own signature of the raw body, a
\* signature made without the endpoint secret, or no header
Signatures == {"valid", "forged", "missing"}

NoCart == [hasCart |-> FALSE, cart |-> <<>>]

\* metadata: { cart: JSON.stringify(cart || []) }. The cart came out of
\* express.json(), so every value of it is a JSON value and reads back
\* from JSON.parse as it was written (an absent quantity stays absent).
CartMetadata(cart) ==
  [hasCart |-> TRUE, cart |-> IF cart.isArray THEN cart.elems ELSE <<>>]

\* the session the processor keeps: the metadata, and the line items as
\* stripe.checkout.sessions.listLineItems gives them back
Session(metadata, listed) == [metadata |-> metadata, line_items |-> listed]

\* the listing of line items created from price_data (variant A)
ListedA(items) ==
  [i \in 1..Len(items) |-> [description |-> items[i].name, quantity |-> items[i].quantity]]

\* the listing of line items created from a price id (variant B)
ListedB(items) ==
  [i \in 1..Len(items) |-> [description |-> items[i].price, quantity |-> items[i].quantity]]

Event(type, id, metadata) == [type |-> type, id |-> id, metadata |-> metadata]

NoEvent == Event("", "", NoCart)

\* a verification that lets every request through
constructEventAcceptAll(sig) == TRUE

\* stripe.webhooks.constructEvent(req.body, sig, endpointSecret) returns the
\* event when the header carries Stripe's signature of the body, and throws
\* otherwise
constructEvent(sig) == sig = "valid"

\* the id the processor gives the next session
NewSessionId == CHOOSE id \in SessionIds : id \notin DOMAIN sessions

CanCreate == DOMAIN sessions # SessionIds

(***************************************************************************)
(* The response of the last request handled, with the request it answers.  *)
(***************************************************************************)
Response(route) ==
  [ route |-> route, status |-> 0, error |-> NoError,
    cart |-> NotAnArray, line_items |-> <<>>, session |-> "", calls |-> 0,
    sig |-> "", event |-> NoEvent, detail |-> "" ]

WEBHOOK_PATH == "/webhooks/stripe"

(***************************************************************************)
(* Variant A, POST /webhooks/stripe.                                       *)
(***************************************************************************)
\* cart.forEach(({productId, quantity}) => { if (STOCK[productId] !== undefined)
\*   STOCK[productId] = Math.max(0, STOCK[productId] - (Number(quantity) || 1)) })
RECURSIVE DecrementStock(_, _)
DecrementStock(stock, cart) ==
  IF cart = <<>> THEN stock
  ELSE
    LET line == Head(cart)
        next == IF line.productId \in DOMAIN stock
                  THEN [stock EXCEPT ![line.productId] =
                          Max(0, @ - NumberOrOne(line.quantity))]
                  ELSE stock
    IN DecrementStock(next, Tail(cart))

\* the record appended to orders.json
OrderRecord(event, items) ==
  [ id |-> event.id,
    metadata |-> event.metadata,
    line_items |-> [i \in 1..Len(items) |->
                      [description |-> items[i].description, quantity |-> items[i].quantity]] ]

\* the handler: the event Stripe (or anyone) posts, the signature header,
\* what listLineItems answers (items, or a rejection when listOk is false)
\* and whether fs.appendFileSync succeeds
WebhookA(event, sig, items, listOk, appendOk) ==
  LET r == [Response(WEBHOOK_PATH) EXCEPT !.sig = sig, !.event = event] IN
  IF ~constructEvent(sig) THEN
    /\ last' = [r EXCEPT !.status = 400, !.error = Error("Webhook Error", "")]
    /\ UNCHANGED <<STOCK, orders, sessions>>
  ELSE IF event.type # "checkout.session.completed" THEN
    /\ last' = [r EXCEPT !.status = 200]
    /\ UNCHANGED <<STOCK, orders, sessions>>
  ELSE IF ~listOk THEN
    \* the await rejects: the outer catch answers 500
    /\ last' = [r EXCEPT !.status = 500, !.calls = 1, !.detail = "listLineItems failed",
                         !.error = Error("Webhook handler error", "")]
    /\ UNCHANGED <<STOCK, orders, sessions>>
  ELSE
    LET stock == IF event.metadata.hasCart
                   THEN DecrementStock(STOCK, event.metadata.cart)
                   ELSE STOCK
    IN
    /\ \A k \in DOMAIN stock : stock[k] <= MaxStock
    /\ STOCK' = stock
    /\ UNCHANGED sessions
    /\ IF appendOk THEN
         /\ Len(orders) < MaxOrders
         /\ orders' = Append(orders, OrderRecord(event, items))
         /\ last' = [r EXCEPT !.status = 200, !.calls = 1]
       ELSE
         /\ orders' = orders
         /\ last' = [r EXCEPT !.status = 500, !.calls = 1, !.detail = "append failed",
                              !.error = Error("Webhook handler error", "")]

\* Stripe delivers an event about one of its sessions, signed; it may
\* deliver the same event again
Deliver ==
  \E id \in DOMAIN sessions, type \in EventTypes, listOk \in BOOLEAN, appendOk \in BOOLEAN :
    WebhookA(Event(type, id, sessions[id].metadata), "valid",
             sessions[id].line_items, listOk, appendOk)

(***************************************************************************)
(* Variant A, POST /api/checkout.                                          *)
(***************************************************************************)
Checkout(cart, createOk) ==
  LET r == [Response("/api/checkout") EXCEPT !.cart = cart]
      res == makeLineItems(cart, STOCK)
  IN
  /\ UNCHANGED <<STOCK, orders>>
  /\ IF ~res.ok THEN
       /\ last' = [r EXCEPT !.status = 400, !.error = res.error]
       /\ UNCHANGED sessions
     ELSE IF ~createOk THEN
       \* stripe.checkout.sessions.create rejects
       /\ last' = [r EXCEPT !.status = 400, !.calls = 1, !.line_items = res.items,
                            !.error = Error("Stripe error", "")]
       /\ UNCHANGED sessions
     ELSE
       /\ CanCreate
       /\ sessions' = sessions @@ (NewSessionId :> Session(CartMetadata(cart), ListedA(res.items)))
       /\ last' = [r EXCEPT !.status = 200, !.calls = 1, !.line_items = res.items,
                            !.session = NewSessionId]

(***************************************************************************)
(* Variant A, POST /api/create-checkout-session (single fixed item).       *)
(***************************************************************************)
LegacyItem == [currency |-> "gbp", name |-> "HOST_001 Tee", unit_amount |-> 3500, quantity |-> 1]

LegacyCheckout(createOk) ==
  LET r == Response("/api/create-checkout-session") IN
  /\ UNCHANGED <<STOCK, orders>>
  /\ IF ~createOk THEN
       /\ last' = [r EXCEPT !.status = 500, !.calls = 1,
                            !.error = Error("Stripe session creation failed", "")]
       /\ UNCHANGED sessions
     ELSE
       /\ CanCreate
       /\ sessions' = sessions @@ (NewSessionId :> Session(NoCart, ListedA(<<LegacyItem>>)))
       /\ last' = [r EXCEPT !.status = 200, !.calls = 1, !.line_items = <<LegacyItem>>,
                            !.session = NewSessionId]

(***************************************************************************)
(* Variant B: friendly SKUs, price lookup at the processor.                *)
(***************************************************************************)
friendlyMap ==
  [ s \in {"vein-001", "vein001"} |-> "host001_compression_vein001" ] @@
  [ s \in {"vein-002", "vein002"} |-> "host001_compression_vein002" ] @@
  [ s \in {"obsidian-001", "obsidian"} |-> "host001_compression_obsidian" ] @@
  [ s \in {"corrode-001", "corrode"} |-> "host001_compression_corrode" ] @@
  [ s \in {"skinlock-exe", "skinlock"} |-> "host001_compression_skinlock" ] @@
  [ s \in {"reaper-001", "reaper"} |-> "host001_tee_reaper" ] @@
  [ s \in {"wrath-001", "wraith-001", "wrath"} |-> "host001_tee_wrath" ] @@
  [ s \in {"within-001", "within"} |-> "host001_hoodie_within" ] @@
  [ s \in {"nullvoid-001", "nullvoid"} |-> "host001_hoodie_nullvoid" ]

\* what stripe.prices.search answers: the active price of a lookup key, for
\* the lookup keys that have one at the processor
StripePrices ==
  [ lk \in {"host001_compression_vein001"} |-> "price_vein001" ]

\* String(item.price).startsWith("price_"), over the price strings of the model
startsWithPrice(price) == price \in {"price_vein001", "price_bogus"}

\* an item of req.body.items; "" is an absent (falsy) property
Item(price, lookup_key, sku, quantity) ==
  [price |-> price, lookup_key |-> lookup_key, sku |-> sku, quantity |-> quantity]

\* item.quantity || 1 : the value itself unless it is falsy
QuantityOrOne(q) ==
  IF q.t \in {"null", "undefined"} \/ (q.t = "number" /\ q.v = 0) THEN Num(1) ELSE q

\* resolveLineItem(item): [ok, error, line, calls], calls counting the
\* stripe.prices.search requests made
resolveLineItem(item) ==
  IF item.price # "" /\ startsWithPrice(item.price) THEN
    [ok |-> TRUE, error |-> NoError, calls |-> 0,
     line |-> [price |-> item.price, quantity |-> QuantityOrOne(item.quantity)]]
  ELSE
    LET lk == IF item.lookup_key # "" THEN item.lookup_key
              ELSE IF item.sku # "" /\ item.sku \in DOMAIN friendlyMap THEN friendlyMap[item.sku]
              ELSE ""
    IN
    IF lk = "" THEN
      [ok |-> FALSE, error |-> Error("Item needs price or lookup_key/sku", ""), calls |-> 0,
       line |-> [price |-> "", quantity |-> Num(1)]]
    ELSE IF lk \notin DOMAIN StripePrices THEN
      [ok |-> FALSE, error |-> Error("No active Stripe price for lookup_key", lk), calls |-> 1,
       line |-> [price |-> "", quantity |-> Num(1)]]
    ELSE
      [ok |-> TRUE, error |-> NoError, calls |-> 1,
       line |-> [price |-> StripePrices[lk], quantity |-> QuantityOrOne(item.quantity)]]

\* for (const it of items) line_items.push(await resolveLineItem(it)):
\* the lines resolved before the first throw, the throw, the searches made
RECURSIVE resolveAll(_, _, _)
resolveAll(items, done, calls) ==
  IF items = <<>> THEN [ok |-> TRUE, error |-> NoError, items |-> done, calls |-> calls]
  ELSE
    LET r == resolveLineItem(Head(items)) IN
    IF ~r.ok THEN [ok |-> FALSE, error |-> r.error, items |-> <<>>, calls |-> calls + r.calls]
    ELSE resolveAll(Tail(items), Append(done, r.line), calls + r.calls)

\* the processor refuses a session whose line names no price of its own,
\* with an error that names the first such price
NoSuchPrice(lines) ==
  {i \in 1..Len(lines) : \A lk \in DOMAIN StripePrices : StripePrices[lk] # lines[i].price}

CreateError(lines) ==
  IF NoSuchPrice(lines) = {} THEN Error("Stripe error", "")
  ELSE Error("No such price",
             lines[CHOOSE i \in NoSuchPrice(lines) : \A j \in NoSuchPrice(lines) : i <= j].price)

\* POST /create-checkout-session. urlsOk: success and cancel URLs are given
\* in the body or FRONTEND_BASE_URL is set
CheckoutB(items, urlsOk, createOk) ==
  LET r == [Response("/create-checkout-session") EXCEPT !.cart = items] IN
  /\ UNCHANGED <<STOCK, orders>>
  /\ IF ~items.isArray \/ Len(items.elems) = 0 THEN
       /\ last' = [r EXCEPT !.status = 400, !.error = Error("Cart is empty or invalid", "")]
       /\ UNCHANGED sessions
     ELSE
       LET res == resolveAll(items.elems, <<>>, 0) IN
       IF ~res.ok THEN
         /\ last' = [r EXCEPT !.status = 400, !.error = res.error, !.calls = res.calls]
         /\ UNCHANGED sessions
       ELSE IF ~urlsOk THEN
         /\ last' = [r EXCEPT !.status = 400, !.calls = res.calls,
                       !.error = Error("Missing success_url/cancel_url and FRONTEND_BASE_URL", "")]
         /\ UNCHANGED sessions
       ELSE IF ~createOk \/ NoSuchPrice(res.items) # {} THEN
         /\ last' = [r EXCEPT !.status = 400, !.calls = res.calls + 1, !.line_items = res.items,
                              !.error = CreateError(res.items)]
         /\ UNCHANGED sessions
       ELSE
         /\ CanCreate
         /\ sessions' = sessions @@ (NewSessionId :> Session(NoCart, ListedB(res.items)))
         /\ last' = [r EXCEPT !.status = 200, !.calls = res.calls + 1, !.line_items = res.items,
                              !.session = NewSessionId]

\* POST /webhook: verify, log, acknowledge
WebhookB(event, sig) ==
  LET r == [Response("/webhook") EXCEPT !.sig = sig, !.event = event] IN
  /\ UNCHANGED <<STOCK, orders, sessions>>
  /\ IF ~constructEvent(sig)
       THEN last' = [r EXCEPT !.status = 400, !.error = Error("Webhook Error", "")]
       ELSE last' = [r EXCEPT !.status = 200]

DeliverB ==
  \E id \in DOMAIN sessions, type \in EventTypes :
    WebhookB(Event(type, id, sessions[id].metadata), "valid")

(***************************************************************************)
(* Requests of the model.                                                  *)
(***************************************************************************)
\* all arrays of at most MaxCartLen elements of a set, and one value that
\* is no array
Bodies(elems) ==
  {NotAnArray} \cup {Array(c) : c \in UNION {[1..n -> elems] : n \in 0..MaxCartLen}}

\* cart lines of POST /api/checkout; unit_amount is a price the client adds
CartLines ==
  { Line("skinlock_ls_comp_m", Num(12), 1),
    Line("skinlock_ss_black_s", Num(-3), 1),
    Line("unknown-sku", Num(1), 1) }

Carts == Bodies(CartLines)

\* items of POST /create-checkout-session
Items ==
  { Item("", "", "vein-001", Num(2)),
    Item("", "", "unknown-sku", Num(1)),
    Item("", "host001_tee_reaper", "", Num(1)),
    Item("price_bogus", "", "", Undefined) }

ItemLists == Bodies(Items)

\* events posted by someone who does not hold the endpoint secret
ForgedEvents ==
  { Event("checkout.session.completed", id,
          CartMetadata(Array(<<Line("skinlock_ls_comp_m", Num(1), 1)>>))) : id \in SessionIds }

Forge ==
  \E event \in ForgedEvents, sig \in Signatures \ {"valid"} :
    WebhookA(event, sig, <<>>, TRUE, TRUE)

ForgeB ==
  \E event \in ForgedEvents, sig \in Signatures \ {"valid"} :
    WebhookB(event, sig)

Init ==
  /\ server \in {"A", "B"}
  /\ STOCK = InitialStock
  /\ orders = <<>>
  /\ sessions = << >>
  /\ last = Response("")

PostCheckout ==
  /\ server = "A" /\ UNCHANGED server
  /\ \E cart \in Carts, createOk \in BOOLEAN : Checkout(cart, createOk)

PostLegacyCheckout ==
  /\ server = "A" /\ UNCHANGED server
  /\ \E createOk \in BOOLEAN : LegacyCheckout(createOk)

PostWebhookA ==
  /\ server = "A" /\ UNCHANGED server
  /\ (Deliver \/ Forge)

PostCheckoutB ==
  /\ server = "B" /\ UNCHANGED server
  /\ \E items \in ItemLists, urlsOk \in BOOLEAN, createOk \in BOOLEAN :
       CheckoutB(items, urlsOk, createOk)

PostWebhookB ==
  /\ server = "B" /\ UNCHANGED server
  /\ (DeliverB \/ ForgeB)

Next ==
  \/ PostCheckout
  \/ PostLegacyCheckout
  \/ PostWebhookA
  \/ PostCheckoutB
  \/ PostWebhookB

Spec == Init /\ [][Next]_vars

(***************************************************************************)
(* makeLineItems on its own: one application to a cart, under a stock map  *)
(* the server can hold.                                                    *)
(***************************************************************************)
Quantities ==
  { Num(-3), Num(0), Num(1), Num(7), Num(10), Num(11), NumStr(2),
    Garbled, Null, Undefined }

ResolveLines ==
  { Line(id, q, 1) :
      id \in {"skinlock_ss_black_s", "skinlock_ls_comp_m", "unknown-sku"}, q \in Quantities }

StockSamples ==
  { InitialStock,
    [InitialStock EXCEPT !["skinlock_ls_comp_m"] = 0],
    [InitialStock EXCEPT !["skinlock_ss_black_s"] = 1] }

InitResolve ==
  /\ server = "A"
  /\ STOCK \in StockSamples
  /\ orders = <<>>
  /\ sessions = << >>
  /\ last = Response("")

Resolve ==
  /\ last.route = ""
  /\ \E cart \in Bodies(ResolveLines) :
       LET res == makeLineItems(cart, STOCK) IN
       last' = [Response("makeLineItems") EXCEPT
                  !.cart = cart, !.line_items = res.items, !.error = res.error,
                  !.status = IF res.ok THEN 200 ELSE 400]
  /\ UNCHANGED <<server, STOCK, orders, sessions>>

SpecResolve == InitResolve /\ [][Resolve]_vars

(***************************************************************************)
(* Properties.                                                             *)
(***************************************************************************)
WebhookRoutes == {WEBHOOK_PATH, "/webhook"}

Completed(r) == r.event.type = "checkout.session.completed"

\* the number of lines of orders.json written for a session
RecordsOf(id) == Cardinality({i \in 1..Len(orders) : orders[i].id = id})

\* C1: however often Stripe delivers checkout.session.completed for a
\* session, orders.json holds at most one record for it (and the stock is
\* decremented for it once).
C1_OneRecordPerSession == \A id \in SessionIds : RecordsOf(id) <= 1

\* C2: a webhook request whose signature does not verify is answered 4xx
\* and changes neither the stock map nor orders.json (nor the sessions),
\* whatever its payload.
C2_InvalidSignatureRejected ==
  [][ (last'.route \in WebhookRoutes /\ last'.sig # "valid")
        => /\ last'.status \in 400..499
           /\ STOCK' = STOCK
           /\ orders' = orders
           /\ sessions' = sessions ]_vars

\* C2 witness: a forged checkout.session.completed event with an embedded
\* cart was posted to variant A's webhook and answered 400.
C2_Witness ==
  /\ last.route = WEBHOOK_PATH
  /\ last.sig = "forged"
  /\ Completed(last)
  /\ last.event.metadata.hasCart
  /\ Len(last.event.metadata.cart) > 0
  /\ last.status = 400

\* C3: a webhook request whose signature verifies is always answered with
\* success, whatever fails afterwards.
C3_VerifiedAlwaysAcknowledged ==
  (last.route \in WebhookRoutes /\ last.sig = "valid") => last.status = 200

\* the quantity of a cart line after the clamp into [1,10]: 1 when it is
\* missing or no number
ClampedQuantity(q) ==
  IF q.t \in {"number", "numeric-string"}
    THEN (IF q.v > 10 THEN 10 ELSE IF q.v < 1 THEN 1 ELSE q.v)
    ELSE 1

\* the units of a key a cart lists
RECURSIVE UnitsOf(_, _)
UnitsOf(key, cart) ==
  IF cart = <<>> THEN 0
  ELSE (IF Head(cart).productId = key THEN ClampedQuantity(Head(cart).quantity) ELSE 0)
       + UnitsOf(key, Tail(cart))

\* C4: handling one verified checkout.session.completed event whose session
\* embeds a cart lowers the stock of each listed tracked key by the units
\* listed and appends exactly one record with the session's id.
C4_CompletedEventDecrementsAndRecords ==
  [][ (last'.route = WEBHOOK_PATH /\ last'.sig = "valid" /\ Completed(last')
       /\ last'.event.metadata.hasCart)
        => /\ \A k \in DOMAIN STOCK :
                STOCK'[k] = STOCK[k] - UnitsOf(k, last'.event.metadata.cart)
           /\ Len(orders') = Len(orders) + 1
           /\ orders'[Len(orders')].id = last'.event.id ]_vars

\* the identifiers of a request cart that resolve to no catalog entry of
\* the server: productIds outside PRICE_MAP (variant A), SKUs outside
\* friendlyMap that come with no price id and no lookup key (variant B)
Unresolved(r) ==
  IF r.route = "/api/checkout"
    THEN {r.cart.elems[i].productId : i \in {j \in 1..Len(r.cart.elems) :
            r.cart.elems[j].productId \notin DOMAIN PRICE_MAP}}
    ELSE {r.cart.elems[i].sku : i \in {j \in 1..Len(r.cart.elems) :
            /\ r.cart.elems[j].price = ""
            /\ r.cart.elems[j].lookup_key = ""
            /\ r.cart.elems[j].sku \notin DOMAIN friendlyMap}}

\* C5: a create-session request whose cart holds an identifier that
\* resolves to no catalog entry fails, creates no session, and its error
\* names an identifier of the cart that does not resolve.
C5_UnknownIdentifierNamed ==
  (last.route \in {"/api/checkout", "/create-checkout-session"} /\ Unresolved(last) # {})
    => /\ last.status = 400
       /\ last.session = ""
       /\ last.error.key # ""

\* C6: for a non-empty cart whose lines all name PRICE_MAP keys with
\* positive stock, makeLineItems returns one line item per cart line, in
\* cart order, with the quantity clamped into [1,10] (1 when missing or no
\* number) and the name, unit amount and currency of the PRICE_MAP entry.
C6_ResolvedFromCatalog ==
  LET c == last.cart.elems IN
  (/\ last.route = "makeLineItems"
   /\ last.cart.isArray
   /\ Len(c) > 0
   /\ \A i \in 1..Len(c) : c[i].productId \in DOMAIN PRICE_MAP /\ STOCK[c[i].productId] > 0)
    => /\ last.status = 200
       /\ Len(last.line_items) = Len(c)
       /\ \A i \in 1..Len(c) :
            /\ last.line_items[i].quantity = ClampedQuantity(c[i].quantity)
            /\ last.line_items[i].quantity \in 1..10
            /\ last.line_items[i].name = PRICE_MAP[c[i].productId].name
            /\ last.line_items[i].unit_amount = PRICE_MAP[c[i].productId].unit_amount
            /\ last.line_items[i].currency = PRICE_MAP[c[i].productId].currency

\* C6 witness: a two-line cart over two keys, one quantity above the cap and
\* one that is no number, resolved to quantities 10 and 1 at the catalog's
\* prices (the client's own unit_amount of 1 is not used).
C6_Witness ==
  /\ last.route = "makeLineItems"
  /\ last.cart = Array(<<Line("skinlock_ls_comp_m", Num(11), 1),
                         Line("skinlock_ss_black_s", Garbled, 1)>>)
  /\ Len(last.line_items) = 2
  /\ last.line_items[1].quantity = 10 /\ last.line_items[1].unit_amount = 5200
  /\ last.line_items[2].quantity = 1 /\ last.line_items[2].unit_amount = 3500

\* C7: a create-session request whose cart is empty or no array fails with
\* the empty-cart error before any request to the processor is made, and
\* no session is created.
C7_EmptyCartFailsFirst ==
  (/\ last.route \in {"/api/checkout", "/create-checkout-session"}
   /\ (~last.cart.isArray \/ Len(last.cart.elems) = 0))
    => /\ last.status = 400
       /\ last.error.message \in {"Cart empty", "Cart is empty or invalid"}
       /\ last.calls = 0
       /\ last.session = ""
       /\ last.line_items = <<>>

\* C7 witness: POST /api/checkout with an empty array was answered 400.
C7_Witness ==
  /\ last.route = "/api/checkout"
  /\ last.cart = Array(<<>>)
  /\ last.status = 400

\* the lines of a cart whose key has tracked stock <= 0
SoldOut(c) ==
  {i \in 1..Len(c) : c[i].productId \in DOMAIN STOCK /\ STOCK[c[i].productId] <= 0}

\* the lines of a cart that are unknown to PRICE_MAP or sold out
Failing(c) ==
  {i \in 1..Len(c) : c[i].productId \notin DOMAIN PRICE_MAP} \cup SoldOut(c)

\* C8 as first stated: a POST /api/checkout whose cart has a line with
\* tracked stock <= 0 is rejected with the out-of-stock error naming that
\* line's key, and no session is created.
C8_OutOfStockNamed ==
  LET c == last.cart.elems IN
  (last.route = "/api/checkout" /\ last.cart.isArray)
    => \A i \in SoldOut(c) :
         /\ last.status = 400
         /\ last.session = ""
         /\ last.error = Error("Out of stock", c[i].productId)

\* C8 amended: a POST /api/checkout never changes the stock; if its cart has
\* a line with tracked stock <= 0 it is answered 400 before any request to
\* the processor and no session is created, the error naming the first line
\* that is unknown or out of stock; if every line names a known key with
\* stock >= 1, every line resolves whatever quantity it asks for.
C8_OutOfStockRejected ==
  [][ last'.route = "/api/checkout"
        => /\ STOCK' = STOCK
           /\ LET c == last'.cart.elems
                  first == CHOOSE i \in Failing(c) : \A j \in Failing(c) : i <= j
              IN
              /\ SoldOut(c) # {}
                   => /\ last'.status = 400
                      /\ last'.calls = 0
                      /\ last'.session = ""
                      /\ sessions' = sessions
                      /\ last'.error.key = c[first].productId
                      /\ last'.error.message =
                           IF first \in SoldOut(c) THEN "Out of stock" ELSE "Unknown productId"
              /\ (last'.cart.isArray /\ Len(c) > 0 /\ Failing(c) = {})
                   => /\ Len(last'.line_items) = Len(c)
                      /\ last'.calls = 1
                      /\ last'.error.message \notin {"Out of stock", "Unknown productId", "Cart empty"}
      ]_vars

\* C8 witness: a cart whose first line is in stock and asks for less than
\* nothing, and whose second line is sold out, was rejected naming the
\* second line's key.
C8_Witness ==
  /\ last.route = "/api/checkout"
  /\ Len(last.cart.elems) = 2
  /\ 1 \notin Failing(last.cart.elems)
  /\ 2 \in SoldOut(last.cart.elems)
  /\ last.status = 400
  /\ last.error = Error("Out of stock", last.cart.elems[2].productId)

\* C9: no step raises the stock of a key.
C9_StockNeverIncreases ==
  [][ \A k \in DOMAIN STOCK : STOCK'[k] <= STOCK[k] ]_vars

\* C10: when listLineItems fails while a verified checkout.session.completed
\* event is handled, the handler goes on: one record with the session's id
\* is appended to orders.json.
C10_DetailFailureDoesNotAbort ==
  [][ (last'.route = WEBHOOK_PATH /\ last'.sig = "valid" /\ Completed(last')
       /\ last'.detail = "listLineItems failed")
        => /\ Len(orders') = Len(orders) + 1
           /\ orders'[Len(orders')].id = last'.event.id ]_vars

====
